---- MODULE Spec2Model ----
(***************************************************************************)
(* Model of two ansible-lint rules:                                        *)
(*   src/ansiblelint/rules/VariableNamingRule.py      (var-naming)         *)
(*   src/ansiblelint/rules/UseCommandInsteadOfShellRule.py                 *)
(*                                                                         *)
(* The rules are stateless: every matcher is a function of its arguments.  *)
(* The state machine performs one matcher call per behaviour: Init is the  *)
(* idle rule object, each action is one call with an argument drawn from a *)
(* bounded set of documents, and records the call's outcome.               *)
(*                                                                         *)
(* Python values are records [type, chars, items]:                         *)
(*   str   chars = the characters, one per element                         *)
(*   int / bool / none   chars = the repr, never inspected as text         *)
(*   dict  items = the entries [key, value] in insertion order             *)
(*   list  items = the elements                                            *)
(***************************************************************************)
EXTENDS Naturals, Sequences, FiniteSets

VARIABLES op, arg, result, readerCalled

vars == <<op, arg, result, readerCalled>>

----------------------------------------------------------------------------
(* Bounds of the enumerated inputs *)

\* longest identifier candidate enumerated for the validator
MaxIdentLen == 3
\* most entries (over all nesting levels) of an enumerated mapping
MaxKeys == 3
\* most entries of a task's vars block
MaxTaskKeys == 1
\* longest enumerated shell command text
MaxCmdLen == 5

----------------------------------------------------------------------------
(* Python values *)

Str(cs) == [type |-> "str", chars |-> cs, items |-> <<>>]
Int(cs) == [type |-> "int", chars |-> cs, items |-> <<>>]
Bool(cs) == [type |-> "bool", chars |-> cs, items |-> <<>>]
Dict(es) == [type |-> "dict", chars |-> <<>>, items |-> es]
List(xs) == [type |-> "list", chars |-> <<>>, items |-> xs]
None == [type |-> "none", chars |-> <<>>, items |-> <<>>]
\* marker for "key not present" in a .get() / [] lookup
Missing == [type |-> "missing", chars |-> <<>>, items |-> <<>>]

Entry(k, v) == [key |-> k, value |-> v]

\* dict.__contains__
Has(d, k) == \E i \in 1..Len(d.items) : d.items[i].key = k

\* dict.get(k, default)
Get(d, k, default) ==
  IF Has(d, k)
  THEN d.items[CHOOSE i \in 1..Len(d.items) : d.items[i].key = k].value
  ELSE default

\* Python truthiness of the values that reach an `if`
Truthy(v) ==
  CASE v.type \in {"str", "int"} -> v.chars # <<>> /\ v.chars # <<"0">>
    [] v.type = "bool" -> v.chars = <<"T", "r", "u", "e">>
    [] v.type \in {"dict", "list"} -> v.items # <<>>
    [] OTHER -> FALSE

----------------------------------------------------------------------------
(* Characters.  A character is a one-element token; U+00E9 is e-acute and   *)
(* U+0060 the backtick.                                                    *)

LowerCase == {"a", "b", "c", "d", "e", "f", "g", "h", "i", "j", "k", "l", "m",
              "n", "o", "p", "q", "r", "s", "t", "u", "v", "w", "x", "y", "z"}
UpperCase == {"A", "B", "C", "D", "E", "F", "G", "H", "I", "J", "K", "L", "M",
              "N", "O", "P", "Q", "R", "S", "T", "U", "V", "W", "X", "Y", "Z"}
Digits == {"0", "1", "2", "3", "4", "5", "6", "7", "8", "9"}
Punctuation == {" ", "\n", "_", "-", "'", "(", ")", ".", "&", "|", "<", ">",
                ";", "$", "*", "[", "]", "{", "}", "?", "U+0060"}
AsciiChars == LowerCase \cup UpperCase \cup Digits \cup Punctuation
NonAsciiLetters == {"U+00E9"}

\* str.encode('ascii') succeeds
EncodesAscii(cs) == \A i \in 1..Len(cs) : cs[i] \in AsciiChars

\* str.isidentifier(): XID_Start XID_Continue*, Unicode letters included
XidStart == LowerCase \cup UpperCase \cup {"_"} \cup NonAsciiLetters
XidContinue == XidStart \cup Digits
isidentifier(cs) ==
  /\ Len(cs) > 0
  /\ cs[1] \in XidStart
  /\ \A i \in 2..Len(cs) : cs[i] \in XidContinue

\* keyword.kwlist
kwlist ==
  { <<"F","a","l","s","e">>, <<"N","o","n","e">>, <<"T","r","u","e">>,
    <<"a","n","d">>, <<"a","s">>, <<"a","s","s","e","r","t">>,
    <<"a","s","y","n","c">>, <<"a","w","a","i","t">>, <<"b","r","e","a","k">>,
    <<"c","l","a","s","s">>, <<"c","o","n","t","i","n","u","e">>,
    <<"d","e","f">>, <<"d","e","l">>, <<"e","l","i","f">>, <<"e","l","s","e">>,
    <<"e","x","c","e","p","t">>, <<"f","i","n","a","l","l","y">>,
    <<"f","o","r">>, <<"f","r","o","m">>, <<"g","l","o","b","a","l">>,
    <<"i","f">>, <<"i","m","p","o","r","t">>, <<"i","n">>, <<"i","s">>,
    <<"l","a","m","b","d","a">>, <<"n","o","n","l","o","c","a","l">>,
    <<"n","o","t">>, <<"o","r">>, <<"p","a","s","s">>, <<"r","a","i","s","e">>,
    <<"r","e","t","u","r","n">>, <<"t","r","y">>, <<"w","h","i","l","e">>,
    <<"w","i","t","h">>, <<"y","i","e","l","d">> }
iskeyword(cs) == cs \in kwlist

----------------------------------------------------------------------------
(* VariableNamingRule.py: module-level helpers *)

\* k.startswith('__') and k.endswith('__'), k a str
StartsEndsDunder(cs) ==
  /\ Len(cs) >= 2
  /\ cs[1] = "_" /\ cs[2] = "_"
  /\ cs[Len(cs) - 1] = "_" /\ cs[Len(cs)] = "_"

\* is_property(k): "raise" when k has no startswith (a non-str key)
is_property(k) ==
  IF k.type # "str" THEN "raise"
  ELSE IF StartsEndsDunder(k.chars) THEN "true" ELSE "false"

\* faulty variants of is_invalid_variable_name: no ASCII test; inverted result
is_invalid_variable_name_noascii(ident) ==
  /\ ident.type = "str"
  /\ isidentifier(ident.chars)
  /\ ~iskeyword(ident.chars)

is_invalid_variable_name_negated(ident) ==
  ~ ( /\ ident.type = "str"
      /\ EncodesAscii(ident.chars)
      /\ isidentifier(ident.chars)
      /\ ~iskeyword(ident.chars) )

is_invalid_variable_name(ident) ==
  IF ident.type # "str" THEN FALSE
  ELSE IF ~EncodesAscii(ident.chars) THEN FALSE
  ELSE IF ~isidentifier(ident.chars) THEN FALSE
  ELSE IF iskeyword(ident.chars) THEN FALSE
  ELSE TRUE

----------------------------------------------------------------------------
(* Outcome of a call: a returned bool, str, list or generator trace, or an *)
(* exception that leaves the call.                                         *)

RetBool(b) == [kind |-> "bool", b |-> b, msg |-> "", list |-> <<>>]
RetStr(m) == [kind |-> "str", b |-> FALSE, msg |-> m, list |-> <<>>]
RetList(l) == [kind |-> "list", b |-> FALSE, msg |-> "", list |-> l]
Raise(e) == [kind |-> "raise", b |-> FALSE, msg |-> e, list |-> <<>>]
\* what a consumer draining a generator sees: the pairs, then maybe a raise
RetWalk(w) ==
  [kind |-> "walk", b |-> w.raised,
   msg |-> IF w.raised THEN "AttributeError" ELSE "", list |-> w.yields]
NoResult == [kind |-> "none", b |-> FALSE, msg |-> "", list |-> <<>>]

----------------------------------------------------------------------------
(* Key names used by the rules *)

K_vars == <<"v","a","r","s">>
K_action == <<"a","c","t","i","o","n">>
K_register == <<"r","e","g","i","s","t","e","r">>
K_hosts == <<"h","o","s","t","s">>
K_line == <<"_","_","l","i","n","e","_","_">>
K_module == <<"_","_","a","n","s","i","b","l","e","_","m","o","d","u","l","e","_","_">>
K_arguments == <<"_","_","a","n","s","i","b","l","e","_","a","r","g","u","m","e","n","t","s","_","_">>
K_cmd == <<"c","m","d">>
M_set_fact == <<"s","e","t","_","f","a","c","t">>
M_shell == <<"s","h","e","l","l">>
M_command == <<"c","o","m","m","a","n","d">>

----------------------------------------------------------------------------
(* VariableNamingRule.recursive_items: the pairs the generator yields, in  *)
(* order, and whether it then raises (is_property on a non-str key).       *)

RECURSIVE WalkItems(_)
WalkItems(es) ==
  IF Len(es) = 0 THEN [yields |-> <<>>, raised |-> FALSE]
  ELSE
    LET e == Head(es)
        p == is_property(e.key)
    IN  IF p = "raise" THEN [yields |-> <<>>, raised |-> TRUE]
        ELSE
          LET own ==
                IF p = "true" THEN [yields |-> <<>>, raised |-> FALSE]
                ELSE IF e.value.type = "dict"
                THEN LET sub == WalkItems(e.value.items)
                     IN  [yields |-> <<e>> \o sub.yields, raised |-> sub.raised]
                ELSE [yields |-> <<e>>, raised |-> FALSE]
          IN  IF own.raised THEN own
              ELSE LET rest == WalkItems(Tail(es))
                   IN  [yields |-> own.yields \o rest.yields,
                        raised |-> rest.raised]

\* faulty variant: the is_property test is dropped for str keys
RECURSIVE WalkItemsNoSkip(_)
WalkItemsNoSkip(es) ==
  IF Len(es) = 0 THEN [yields |-> <<>>, raised |-> FALSE]
  ELSE
    LET e == Head(es)
    IN  IF e.key.type # "str" THEN [yields |-> <<>>, raised |-> TRUE]
        ELSE
          LET own ==
                IF e.value.type = "dict"
                THEN LET sub == WalkItemsNoSkip(e.value.items)
                     IN  [yields |-> <<e>> \o sub.yields, raised |-> sub.raised]
                ELSE [yields |-> <<e>>, raised |-> FALSE]
          IN  IF own.raised THEN own
              ELSE LET rest == WalkItemsNoSkip(Tail(es))
                   IN  [yields |-> own.yields \o rest.yields,
                        raised |-> rest.raised]

recursive_items_noskip(dictionary) ==
  IF dictionary.type # "dict" THEN [yields |-> <<>>, raised |-> TRUE]
  ELSE WalkItemsNoSkip(dictionary.items)

\* dictionary.items() raises AttributeError on a value that is no mapping
recursive_items(dictionary) ==
  IF dictionary.type # "dict" THEN [yields |-> <<>>, raised |-> TRUE]
  ELSE WalkItems(dictionary.items)

\* the pairs of a walk whose key passes `if is_invalid_variable_name(key)`
Accepted(yields) ==
  SelectSeq(yields, LAMBDA e : is_invalid_variable_name(e.key))

----------------------------------------------------------------------------
(* VariableNamingRule: messages and findings *)

MsgTaskVars ==
  "Task defines variables within 'vars' section that violates variable naming standards"
MsgSetFact ==
  "Task uses 'set_fact' to define variables that violates variable naming standards"
MsgRegister ==
  "Task registers a variable that violates variable naming standards"

\* "Play defines variable '" + key + "' within 'vars' section that ..."
PlayMessage(key) ==
  [prefix |-> "Play defines variable '", key |-> key.chars,
   suffix |-> "' within 'vars' section that violates variable naming standards"]

\* "File defines variable '" + key + "' that violates ..."
FileMessage(key) ==
  [prefix |-> "File defines variable '", key |-> key.chars,
   suffix |-> "' that violates variable naming standards"]

\* self.create_matcherror(filename=, linenumber=, message=)
create_matcherror(linenumber, message) ==
  [linenumber |-> linenumber, message |-> message]

----------------------------------------------------------------------------
(* VariableNamingRule.matchplay *)

\* The loop appends a finding at every accepted key; our_vars['__line__'] is
\* looked up at the first of them (KeyError when absent), and a raise of the
\* generator reaches the caller once the pairs before it are consumed.
matchplay(data) ==
  LET our_vars == Get(data, Str(K_vars), Dict(<<>>))
      w == recursive_items(our_vars)
      hits == Accepted(w.yields)
  IN  IF hits # <<>> /\ ~Has(our_vars, Str(K_line)) THEN Raise("KeyError")
      ELSE IF w.raised THEN Raise("AttributeError")
      ELSE RetList([i \in 1..Len(hits) |->
                     create_matcherror(Get(our_vars, Str(K_line), Missing),
                                       PlayMessage(hits[i].key))])

----------------------------------------------------------------------------
(* VariableNamingRule.matchtask, check by check.  Each check "reports"     *)
(* (returns its message), "raises", or "passes" on to the next statement.  *)

\* lines 99-102: the task's vars block
VarsCheck(task) ==
  LET w == recursive_items(Get(task, Str(K_vars), Dict(<<>>)))
  IN  IF Accepted(w.yields) # <<>> THEN "report"
      ELSE IF w.raised THEN "raise"
      ELSE "pass"

\* lines 105-106: task['action']['__ansible_module__']
ModuleLookup(task) ==
  IF ~Has(task, Str(K_action)) THEN "raise"
  ELSE IF Get(task, Str(K_action), Missing).type # "dict" THEN "raise"
  ELSE IF ~Has(Get(task, Str(K_action), Missing), Str(K_module)) THEN "raise"
  ELSE "pass"

\* lines 107-110: the arguments of a set_fact action
SetFactCheck(task) ==
  LET ansible_action == Get(task, Str(K_action), Missing)
      ansible_module == Get(ansible_action, Str(K_module), Missing)
  IN  IF ansible_module # Str(M_set_fact) THEN "pass"
      ELSE LET w == recursive_items(ansible_action)
           IN  IF Accepted(w.yields) # <<>> THEN "report"
               ELSE IF w.raised THEN "raise"
               ELSE "pass"

\* lines 113-115: the register target
RegisterCheck(task) ==
  LET registered_var == Get(task, Str(K_register), None)
  IN  IF Truthy(registered_var) /\ is_invalid_variable_name(registered_var)
      THEN "report" ELSE "pass"

\* faulty variant: the register target is checked before the vars block
matchtask_register_first(task) ==
  IF RegisterCheck(task) = "report" THEN RetStr(MsgRegister)
  ELSE IF VarsCheck(task) = "report" THEN RetStr(MsgTaskVars)
  ELSE IF VarsCheck(task) = "raise" THEN Raise("AttributeError")
  ELSE IF ModuleLookup(task) = "raise" THEN Raise("KeyError")
  ELSE IF SetFactCheck(task) = "report" THEN RetStr(MsgSetFact)
  ELSE IF SetFactCheck(task) = "raise" THEN Raise("AttributeError")
  ELSE RetBool(FALSE)

\* faulty variant: the module name is resolved before the vars block is walked
matchtask_module_first(task) ==
  IF ModuleLookup(task) = "raise" THEN Raise("KeyError")
  ELSE IF VarsCheck(task) = "report" THEN RetStr(MsgTaskVars)
  ELSE IF VarsCheck(task) = "raise" THEN Raise("AttributeError")
  ELSE IF SetFactCheck(task) = "report" THEN RetStr(MsgSetFact)
  ELSE IF SetFactCheck(task) = "raise" THEN Raise("AttributeError")
  ELSE IF RegisterCheck(task) = "report" THEN RetStr(MsgRegister)
  ELSE RetBool(FALSE)

matchtask(task) ==
  IF VarsCheck(task) = "report" THEN RetStr(MsgTaskVars)
  ELSE IF VarsCheck(task) = "raise" THEN Raise("AttributeError")
  ELSE IF ModuleLookup(task) = "raise" THEN Raise("KeyError")
  ELSE IF SetFactCheck(task) = "report" THEN RetStr(MsgSetFact)
  ELSE IF SetFactCheck(task) = "raise" THEN Raise("AttributeError")
  ELSE IF RegisterCheck(task) = "report" THEN RetStr(MsgRegister)
  ELSE RetBool(FALSE)

----------------------------------------------------------------------------
(* VariableNamingRule.matchyaml.  file = [kind, reader, default]: reader   *)
(* is what parse_yaml_from_file does for file.path (a mapping, None for an *)
(* empty file, or "the reader raises"), default is what the base class's   *)
(* matchyaml returns for the file.                                         *)

ReaderFails == [type |-> "raises", chars |-> <<>>, items |-> <<>>]

\* the findings of a parsed vars file (lines 126-136)
FileFindings(meta_data) ==
  LET w == recursive_items(meta_data)
      hits == Accepted(w.yields)
  IN  IF w.raised THEN Raise("AttributeError")
      ELSE RetList([i \in 1..Len(hits) |->
                     create_matcherror(Missing, FileMessage(hits[i].key))])

\* faulty variant: a failing reader is treated as an empty file
matchyaml_swallow(file) ==
  IF file.kind = "vars"
  THEN [reader_called |-> TRUE,
        out |-> IF file.reader = ReaderFails THEN RetList(<<>>)
                ELSE FileFindings(file.reader)]
  ELSE [reader_called |-> FALSE, out |-> RetList(file.default)]

\* out: how the call ends; reader_called: whether line 125 ran
matchyaml(file) ==
  IF file.kind = "vars"
  THEN [reader_called |-> TRUE,
        out |-> IF file.reader = ReaderFails THEN Raise("ParseError")
                ELSE FileFindings(file.reader)]
  ELSE [reader_called |-> FALSE, out |-> RetList(file.default)]

----------------------------------------------------------------------------
(* AnsibleLintRule.unjinja: every {{ ... }} placeholder is replaced by the *)
(* text JINJA_EXPRESSION.  A placeholder opens at the leftmost "{{" that   *)
(* has a closing "}}" after at least one character on the same line, and   *)
(* closes at the first such "}}".                                          *)

JINJA_EXPRESSION ==
  <<"J","I","N","J","A","_","E","X","P","R","E","S","S","I","O","N">>

Closers(cs) ==
  { j \in 4..(Len(cs) - 1) :
      /\ cs[j] = "}" /\ cs[j + 1] = "}"
      /\ \A k \in 3..(j - 1) : cs[k] # "\n" }

Min(S) == CHOOSE x \in S : \A y \in S : x <= y

RECURSIVE unjinja(_)
unjinja(cs) ==
  IF Len(cs) < 2 THEN cs
  ELSE IF cs[1] = "{" /\ cs[2] = "{" /\ Closers(cs) # {}
  THEN JINJA_EXPRESSION \o unjinja(SubSeq(cs, Min(Closers(cs)) + 2, Len(cs)))
  ELSE <<cs[1]>> \o unjinja(Tail(cs))

----------------------------------------------------------------------------
(* UseCommandInsteadOfShellRule.matchtask *)

\* the characters of '&|<>;$\n*[]{}?`' (line 55)
ShellChars ==
  <<"&", "|", "<", ">", ";", "$", "\n", "*", "[", "]", "{", "}", "?", "U+0060">>

\* ch in text
Contains(text, ch) == \E i \in 1..Len(text) : text[i] = ch

\* ' '.join(words), words a list of str
RECURSIVE Join(_)
Join(words) ==
  IF Len(words) = 0 THEN <<>>
  ELSE IF Len(words) = 1 THEN words[1].chars
  ELSE words[1].chars \o <<" ">> \o Join(Tail(words))

\* the text given to unjinja (lines 49-54)
CommandText(action) ==
  IF Has(action, Str(K_cmd))
  THEN Get(action, Str(K_cmd), List(<<>>)).chars
  ELSE Join(Get(action, Str(K_arguments), List(<<>>)).items)

\* faulty variant: the command is scanned without unjinja
shell_matchtask_raw(task) ==
  LET action == Get(task, Str(K_action), Missing)
  IN  IF ~Has(action, Str(K_module)) THEN Raise("KeyError")
      ELSE IF Get(action, Str(K_module), Missing) = Str(M_shell)
      THEN RetBool(~ \E i \in 1..Len(ShellChars) :
                        Contains(CommandText(action), ShellChars[i]))
      ELSE RetBool(FALSE)

\* faulty variant: the module name is not looked at
shell_matchtask_any_module(task) ==
  LET action == Get(task, Str(K_action), Missing)
  IN  IF ~Has(action, Str(K_module)) THEN Raise("KeyError")
      ELSE RetBool(~ \E i \in 1..Len(ShellChars) :
                        Contains(unjinja(CommandText(action)), ShellChars[i]))

shell_matchtask(task) ==
  LET action == Get(task, Str(K_action), Missing)
  IN  IF ~Has(action, Str(K_module)) THEN Raise("KeyError")
      ELSE IF Get(action, Str(K_module), Missing) = Str(M_shell)
      THEN RetBool(~ \E i \in 1..Len(ShellChars) :
                        Contains(unjinja(CommandText(action)), ShellChars[i]))
      ELSE RetBool(FALSE)

----------------------------------------------------------------------------
(* The documents the calls are made on *)

\* all sequences over A of length at most n
Strings(A, n) == UNION { [1..k -> A] : k \in 0..n }

S_valid_name == <<"v","a","l","i","d","_","n","a","m","e">>
S_2bad == <<"2","b","a","d">>
S_class == <<"c","l","a","s","s">>
S_hello == <<"h","U+00E9","l","l","o">>
S_BadName == <<"B","a","d","N","a","m","e">>
S_true == <<"t","r","u","e">>
PyTrue == Bool(<<"T","r","u","e">>)
PyFalse == Bool(<<"F","a","l","s","e">>)
One == Int(<<"1">>)

IdentAlphabet == {"i", "s", "_", "2", "-", "U+00E9"}

Idents ==
  { Str(cs) : cs \in Strings(IdentAlphabet, MaxIdentLen) }
    \cup { Str(S_valid_name), Str(S_2bad), Str(S_class), Str(S_hello),
           Str(S_BadName), Str(S_true), Str(K_line),
           Int(<<"1","2","3">>), PyTrue, None }

\* keys of the enumerated mappings: a valid name, a name starting with a
\* digit, the parser's line marker, a keyword, and a YAML boolean key
KeyPool ==
  { Str(<<"a">>), Str(<<"2","b">>), Str(K_line), Str(<<"i","s">>), PyTrue }

KeysOf(es) == { es[i].key : i \in 1..Len(es) }

\* the entry lists with n entries in all, nested mappings included; a
\* mapping's keys are distinct
RECURSIVE Forests(_)
Forests(n) ==
  IF n = 0 THEN {<<>>}
  ELSE UNION {
         { <<Entry(t[1], t[2])>> \o t[3] :
             t \in { u \in KeyPool
                            \X (IF m = 0 THEN {One}
                                ELSE { Dict(f) : f \in Forests(m) })
                            \X Forests(n - 1 - m) :
                       u[1] \notin KeysOf(u[3]) } } :
         m \in 0..(n - 1) }

\* {a: {__line__: 4, b: {c: 1}}}
WalkerFixture ==
  Dict(<<Entry(Str(<<"a">>),
           Dict(<<Entry(Str(K_line), Int(<<"4">>)),
                  Entry(Str(<<"b">>),
                        Dict(<<Entry(Str(<<"c">>), One)>>))>>))>>)

Mappings ==
  { Dict(f) : f \in UNION { Forests(n) : n \in 0..MaxKeys } }
    \cup { WalkerFixture, Dict(<<Entry(Str(<<"a">>), Dict(<<>>))>>) }

\* FAIL_PLAY's vars block, with the key as YAML 1.1 loads it (a bool) and
\* as a str, and {BadName: 1}; the parser adds __line__ to every mapping
FailPlayVars ==
  { Dict(<<Entry(Str(K_line), Int(<<"3">>)), Entry(PyTrue, PyFalse)>>),
    Dict(<<Entry(Str(K_line), Int(<<"3">>)), Entry(Str(S_true), PyFalse)>>),
    Dict(<<Entry(Str(K_line), Int(<<"3">>)), Entry(Str(S_BadName), One)>>) }

HostsEntry == Entry(Str(K_hosts), Str(<<"l","o","c","a","l","h","o","s","t">>))

Plays ==
  { Dict(<<HostsEntry>>) }
    \cup { Dict(<<HostsEntry, Entry(Str(K_vars), d)>>) :
             d \in Mappings \cup FailPlayVars }

\* optional dict entry
Opt(k, v) == IF v = Missing THEN <<>> ELSE <<Entry(Str(k), v)>>

TaskVars ==
  { Missing } \cup
  { Dict(f) : f \in UNION { Forests(n) : n \in 0..MaxTaskKeys } }
Modules == { Missing, Str(M_set_fact), Str(M_command) }
ActionArgs == { <<>> } \cup { <<Entry(k, One)>> : k \in KeyPool }
Registers ==
  { Missing, Str(<<>>), Str(S_BadName), Str(<<"2","b">>), Str(<<"a">>),
    Str(<<"i","s">>) }

NamingTasks ==
  { Dict(Opt(K_vars, t[1])
           \o <<Entry(Str(K_action), Dict(Opt(K_module, t[2]) \o t[3]))>>
           \o Opt(K_register, t[4])) :
      t \in TaskVars \X Modules \X ActionArgs \X Registers }

CmdAlphabet == {"a", "|", "{", "}"}

S_echo_filter ==
  <<"e","c","h","o"," ","{","{"," ","a"," ","|"," ","d","e","f","a","u","l","t",
    "(","'","x","'",")"," ","}","}">>
S_echo_pipe ==
  <<"e","c","h","o"," ","{","{"," ","x"," ","}","}"," ","|"," ","c","a","t">>
S_echo_hello == <<"e","c","h","o"," ","h","e","l","l","o">>

Cmds ==
  Strings(CmdAlphabet, MaxCmdLen)
    \cup { <<"l", "s", c>> : c \in AsciiChars }
    \cup { S_echo_filter, S_echo_pipe, S_echo_hello }

ArgWords == { <<"a">>, <<"|">>, <<"{","{">>, <<"}","}">>, <<"a","|">> }
ArgLists ==
  { <<>> } \cup { <<Str(w)>> : w \in ArgWords }
    \cup { <<Str(t[1]), Str(t[2])>> : t \in ArgWords \X ArgWords }

ShellActions ==
  { <<Entry(Str(K_cmd), Str(c))>> : c \in Cmds }
    \cup { <<Entry(Str(K_arguments), List(l))>> : l \in ArgLists }
    \cup { <<Entry(Str(K_cmd), Str(<<"a">>)),
             Entry(Str(K_arguments), List(<<Str(<<"|">>)>>))>>,
           <<Entry(Str(K_cmd), Str(<<"|">>)),
             Entry(Str(K_arguments), List(<<Str(<<"a">>)>>))>>,
           <<>> }

ShellModules == { Missing, Str(M_shell), Str(M_command) }

ShellTasks ==
  { Dict(<<Entry(Str(K_action), Dict(Opt(K_module, t[1]) \o t[2]))>>) :
      t \in ShellModules \X ShellActions }

GenericFinding == create_matcherror(One, [prefix |-> "generic", key |-> <<>>, suffix |-> ""])

Files ==
  [kind : {"vars"}, reader : Mappings \cup {ReaderFails, None},
   default : {<<>>, <<GenericFinding>>}]
    \cup
  [kind : {"playbook", "tasks"},
   reader : {ReaderFails, None, Dict(<<Entry(Str(<<"a">>), One)>>)},
   default : {<<>>, <<GenericFinding>>}]

----------------------------------------------------------------------------
(* The state machine: one call on the idle rule object *)

Init ==
  /\ op = "idle"
  /\ arg = Missing
  /\ result = NoResult
  /\ readerCalled = FALSE

CallIsInvalidVariableName ==
  /\ op = "idle"
  /\ \E ident \in Idents :
       /\ arg' = ident
       /\ result' = RetBool(is_invalid_variable_name(ident))
  /\ op' = "is_invalid_variable_name"
  /\ UNCHANGED readerCalled

CallRecursiveItems ==
  /\ op = "idle"
  /\ \E dictionary \in Mappings :
       /\ arg' = dictionary
       /\ result' = RetWalk(recursive_items(dictionary))
  /\ op' = "recursive_items"
  /\ UNCHANGED readerCalled

CallMatchplay ==
  /\ op = "idle"
  /\ \E data \in Plays :
       /\ arg' = data
       /\ result' = matchplay(data)
  /\ op' = "matchplay"
  /\ UNCHANGED readerCalled

CallMatchtask ==
  /\ op = "idle"
  /\ \E task \in NamingTasks :
       /\ arg' = task
       /\ result' = matchtask(task)
  /\ op' = "matchtask"
  /\ UNCHANGED readerCalled

CallMatchyaml ==
  /\ op = "idle"
  /\ \E file \in Files :
       /\ arg' = file
       /\ result' = matchyaml(file).out
       /\ readerCalled' = matchyaml(file).reader_called
  /\ op' = "matchyaml"

CallShellMatchtask ==
  /\ op = "idle"
  /\ \E task \in ShellTasks :
       /\ arg' = task
       /\ result' = shell_matchtask(task)
  /\ op' = "shell_matchtask"
  /\ UNCHANGED readerCalled

Next ==
  \/ CallIsInvalidVariableName
  \/ CallRecursiveItems
  \/ CallMatchplay
  \/ CallMatchtask
  \/ CallMatchyaml
  \/ CallShellMatchtask

Spec == Init /\ [][Next]_vars

----------------------------------------------------------------------------
(* Properties *)

\* An acceptable variable name as the specification words it: a str of
\* ASCII letters, digits and underscores, non-empty, not starting with a
\* digit, and no reserved keyword.
AsciiNameChars == LowerCase \cup UpperCase \cup Digits \cup {"_"}
IsAcceptableName(v) ==
  /\ v.type = "str"
  /\ v.chars # <<>>
  /\ \A i \in 1..Len(v.chars) : v.chars[i] \in AsciiNameChars
  /\ v.chars[1] \notin Digits
  /\ v.chars \notin kwlist

\* C1: is_invalid_variable_name(x) returns a bool for every input, never
\* raises, and returns true exactly when x is an acceptable variable name
\* (so false for every non-str value such as 123).
C1_ValidatorTruthTable ==
  op = "is_invalid_variable_name" =>
    /\ result.kind = "bool"
    /\ result.b <=> IsAcceptableName(arg)

C1_Witness ==
  /\ op = "is_invalid_variable_name"
  /\ arg = Int(<<"1","2","3">>)
  /\ result = RetBool(FALSE)

\* the vars block of the play a matchplay call was made on
PlayVars == Get(arg, Str(K_vars), Dict(<<>>))

\* the keys of a sequence of pairs or findings
PairKeys(pairs) == [i \in 1..Len(pairs) |-> pairs[i].key.chars]
FindingKeys(findings) == [i \in 1..Len(findings) |-> findings[i].message.key]

\* C2 (as claimed): on a play whose vars block carries its line marker and
\* can be walked, matchplay returns one finding for each walked key that is
\* not an acceptable variable name, in walk order, and none for the others.
C2_PlayReportsUnacceptableKeys ==
  ( /\ op = "matchplay"
    /\ Has(PlayVars, Str(K_line))
    /\ ~recursive_items(PlayVars).raised )
  => /\ result.kind = "list"
     /\ FindingKeys(result.list) =
          PairKeys(SelectSeq(recursive_items(PlayVars).yields,
                             LAMBDA e : ~IsAcceptableName(e.key)))

\* the user keys of a vars block: all but the parser's line marker
UserEntries(d) == SelectSeq(d.items, LAMBDA e : e.key # Str(K_line))

\* C3 (as claimed): a play whose vars block holds exactly one key, and that
\* key is no acceptable variable name (FAIL_PLAY's `true: false`), yields
\* exactly one finding, carrying the play-level message for that key.
C3_OneUnacceptableKeyOneFinding ==
  ( /\ op = "matchplay"
    /\ Has(PlayVars, Str(K_line))
    /\ Len(UserEntries(PlayVars)) = 1
    /\ UserEntries(PlayVars)[1].value.type # "dict"
    /\ ~IsAcceptableName(UserEntries(PlayVars)[1].key) )
  => /\ result.kind = "list"
     /\ Len(result.list) = 1
     /\ result.list[1].message.prefix = "Play defines variable '"

\* the first entry of a mapping that the walker does not skip, 0 if none
FirstWalked(es) ==
  IF \E j \in 1..Len(es) : ~(es[j].key.type = "str" /\ StartsEndsDunder(es[j].key.chars))
  THEN Min({ j \in 1..Len(es) :
               ~(es[j].key.type = "str" /\ StartsEndsDunder(es[j].key.chars)) })
  ELSE 0

\* C4: the walker never yields an internal property key, at any depth; a
\* pair whose value is a mapping is followed at once by the first pair of
\* that mapping (parent before children, not deferred); and walking
\* {a: {__line__: 4, b: {c: 1}}} yields exactly (a, ..), (b, ..), (c, 1).
C4_WalkerSkipsProperties ==
  op = "recursive_items" =>
    /\ \A i \in 1..Len(result.list) :
         /\ result.list[i].key.type = "str"
         /\ ~StartsEndsDunder(result.list[i].key.chars)
    /\ \A i \in 1..Len(result.list) :
         LET es == result.list[i].value.items
             j == FirstWalked(es)
         IN  (result.list[i].value.type = "dict" /\ j > 0) =>
               IF es[j].key.type = "str"
               THEN i < Len(result.list) /\ result.list[i + 1] = es[j]
               ELSE i = Len(result.list) /\ result.b
    /\ arg = WalkerFixture =>
         /\ ~result.b
         /\ result.list =
              << Entry(Str(<<"a">>), WalkerFixture.items[1].value),
                 Entry(Str(<<"b">>), Dict(<<Entry(Str(<<"c">>), One)>>)),
                 Entry(Str(<<"c">>), One) >>

C4_Witness ==
  /\ op = "recursive_items"
  /\ arg = WalkerFixture
  /\ Len(result.list) = 3

\* the action mapping of the task a task-level call was made on
TaskAction == Get(arg, Str(K_action), Missing)
TaskModule == Get(TaskAction, Str(K_module), Missing)

\* the shell metacharacters, as a set
MetaChars ==
  {"&", "|", "<", ">", ";", "$", "\n", "*", "[", "]", "{", "}", "?", "U+0060"}
Chars(cs) == { cs[i] : i \in 1..Len(cs) }

\* the command text of the task: cmd when present, else the arguments
\* joined with single spaces
TaskCommand ==
  IF Has(TaskAction, Str(K_cmd)) THEN Get(TaskAction, Str(K_cmd), Missing).chars
  ELSE Join(Get(TaskAction, Str(K_arguments), List(<<>>)).items)

\* C5: on a task with a resolved module name, the content-safety matcher
\* returns true exactly when the module is shell and the normalized command
\* text holds no shell metacharacter; false for every other module.
C5_ShellFlaggedIffPlainCommand ==
  (op = "shell_matchtask" /\ Has(TaskAction, Str(K_module))) =>
    /\ result.kind = "bool"
    /\ result.b <=>
         /\ TaskModule = Str(M_shell)
         /\ Chars(unjinja(TaskCommand)) \cap MetaChars = {}

C5_Witness ==
  /\ op = "shell_matchtask"
  /\ TaskModule = Str(M_shell)
  /\ Has(TaskAction, Str(K_arguments))
  /\ ~Has(TaskAction, Str(K_cmd))
  /\ TaskCommand = <<"a", " ", "a">>
  /\ result = RetBool(TRUE)

\* a shell task whose cmd is the given text
IsShellCmd(text) ==
  /\ op = "shell_matchtask"
  /\ TaskModule = Str(M_shell)
  /\ Get(TaskAction, Str(K_cmd), Missing) = Str(text)

\* C6 (as claimed): `echo {{ a | default('x') }}` is not flagged, and
\* `echo {{ x }} | cat` is treated as requiring the shell (not flagged).
C6_FilterPipeNotFlagged ==
  /\ IsShellCmd(S_echo_filter) => result = RetBool(FALSE)
  /\ IsShellCmd(S_echo_pipe) => result = RetBool(FALSE)

\* C6 (amended): a pipe inside a placeholder is not counted as a shell
\* pipe, so `echo {{ a | default('x') }}` and `{{|}}` are flagged (match =
\* true: the shell is not needed), while `echo {{ x }} | cat`, with a pipe
\* outside any placeholder, is not flagged (match = false).
C6_FilterPipeFlagged ==
  /\ IsShellCmd(S_echo_filter) => result = RetBool(TRUE)
  /\ IsShellCmd(<<"{", "{", "|", "}", "}">>) => result = RetBool(TRUE)
  /\ IsShellCmd(S_echo_pipe) => result = RetBool(FALSE)

C6_Witness ==
  /\ IsShellCmd(S_echo_filter)
  /\ result = RetBool(TRUE)

\* C7: the task-level naming matcher returns one value and tries vars, then
\* set_fact, then register, stopping at the first that reports: when the
\* vars and the register check would both report, the result is the vars
\* message; a later message means no earlier check reports; and the result
\* is false only when none of the three reports.
C7_TaskChecksInOrder ==
  op = "matchtask" =>
    /\ result.kind \in {"bool", "str", "raise"}
    /\ (VarsCheck(arg) = "report" /\ RegisterCheck(arg) = "report")
         => result = RetStr(MsgTaskVars)
    /\ result = RetStr(MsgSetFact) => VarsCheck(arg) # "report"
    /\ result = RetStr(MsgRegister) =>
         (VarsCheck(arg) # "report" /\ SetFactCheck(arg) # "report")
    /\ result.kind = "bool" =>
         /\ result.b = FALSE
         /\ VarsCheck(arg) # "report"
         /\ SetFactCheck(arg) # "report"
         /\ RegisterCheck(arg) # "report"

C7_Witness ==
  /\ op = "matchtask"
  /\ VarsCheck(arg) = "report"
  /\ RegisterCheck(arg) = "report"
  /\ result = RetStr(MsgTaskVars)

\* C8: a task with no vars block, a module other than set_fact and
\* `register: BadName` gets exactly the register message.
C8_RegisterBadName ==
  ( /\ op = "matchtask"
    /\ ~Has(arg, Str(K_vars))
    /\ Has(TaskAction, Str(K_module))
    /\ TaskModule # Str(M_set_fact)
    /\ Get(arg, Str(K_register), Missing) = Str(S_BadName) )
  => result = RetStr(MsgRegister)

C8_Witness ==
  /\ op = "matchtask"
  /\ ~Has(arg, Str(K_vars))
  /\ TaskModule = Str(M_command)
  /\ Get(arg, Str(K_register), Missing) = Str(S_BadName)
  /\ result = RetStr(MsgRegister)

\* C9 (as claimed): on a task whose action lacks __ansible_module__ both
\* task-level matchers end in an error, whatever else the task holds.
C9_MissingModuleAlwaysRaises ==
  ( /\ op \in {"matchtask", "shell_matchtask"}
    /\ ~Has(TaskAction, Str(K_module)) )
  => result.kind = "raise"

\* C9 (amended): on such a task the content-safety matcher always ends in
\* an error; the naming matcher ends in an error unless its vars check,
\* which runs before the module name is read, reports, and then it returns
\* the vars message.  It never returns false, nor the set_fact or register
\* message.
C9_MissingModuleRaisesAfterVars ==
  ( /\ op \in {"matchtask", "shell_matchtask"}
    /\ ~Has(TaskAction, Str(K_module)) ) =>
    /\ op = "shell_matchtask" => result = Raise("KeyError")
    /\ op = "matchtask" =>
         IF VarsCheck(arg) = "report" THEN result = RetStr(MsgTaskVars)
         ELSE result.kind = "raise"

C9_Witness ==
  /\ op = "matchtask"
  /\ ~Has(TaskAction, Str(K_module))
  /\ Has(arg, Str(K_register))
  /\ result = Raise("KeyError")

\* C10: when the reader fails on a file of kind vars, matchyaml ends in the
\* reader's error; for any other kind the reader is not called and the
\* result is what the default document-level matcher returns.
C10_ReaderFailurePropagates ==
  op = "matchyaml" =>
    /\ (arg.kind = "vars" /\ arg.reader = ReaderFails)
         => result = Raise("ParseError")
    /\ arg.kind # "vars" =>
         (~readerCalled /\ result = RetList(arg.default))

C10_Witness ==
  /\ op = "matchyaml"
  /\ arg.kind = "vars"
  /\ arg.reader = ReaderFails
  /\ readerCalled
  /\ result.kind = "raise"

====
